---------------------------- MODULE Spec2Model ----------------------------
(***************************************************************************)
(* Model of src/tgigbotspn.py: the global STATE record, the five command   *)
(* handlers, the text router (wizard state machine) and the dry-run        *)
(* engine coroutine running as an asyncio task.                            *)
(*                                                                         *)
(* Strings that the code inspects character by character (strip, lower,    *)
(* isdigit, int, re.split) are sequences of one-character strings.  Three  *)
(* non-ASCII characters are written as tokens: "SUP2" is the superscript   *)
(* two (str.isdigit() is True for it, int() raises ValueError), "FWAMP"    *)
(* is the full-width ampersand, "SMAMP" the small ampersand and "TURNED"   *)
(* the turned ampersand.                                                   *)
(*                                                                         *)
(* Optional values (None / value) are sequences of length 0 / 1.           *)
(*                                                                         *)
(* Granularity.  Handlers are awaited one after the other by the           *)
(* Application; within a handler every assignment to the record happens   *)
(* in one block without an await; the only awaits are the file download    *)
(* before that block and reply_text after it.  The engine task can run     *)
(* only at those awaits, so one handler is one atomic action and one       *)
(* engine action is the code between two suspension points of the          *)
(* coroutine.                                                              *)
(***************************************************************************)
EXTENDS Integers, Sequences, FiniteSets, TLC

VARIABLES State, tasks, tmpfiles, last

vars == <<State, tasks, tmpfiles, last>>

---------------------------------------------------------------------------
(* Bounds of the model                                                     *)

MaxSent == 2
MaxTasks == 2
MaxTime == 1
MaxTmp == 1
MaxPieces == 3

---------------------------------------------------------------------------
(* Option values                                                           *)

None == <<>>
Some(x) == <<x>>

---------------------------------------------------------------------------
(* Configuration                                                           *)

OWNER_TG_ID == "7510461579"

OTHER_TG_ID == "1000000001"

Uids == {OWNER_TG_ID, OTHER_TG_ID}

is_owner_anyone(uid) == TRUE

is_owner(uid) == uid = OWNER_TG_ID

Times == 1..MaxTime

---------------------------------------------------------------------------
(* Characters and the string methods the code calls                        *)

WhiteSpace == {" "}

DecimalChars == {"0", "1", "2", "3", "4", "5", "6", "7", "8", "9"}

DigitChars == DecimalChars \cup {"SUP2"}

Letters == {"a", "b", "c", "d", "g", "n", "x", "y", "A", "B", "C", "D", "G", "N"}

WordChars == Letters \cup DigitChars \cup {"_"}

lower_char(c) ==
  CASE c = "A" -> "a"
    [] c = "B" -> "b"
    [] c = "C" -> "c"
    [] c = "D" -> "d"
    [] c = "G" -> "g"
    [] c = "N" -> "n"
    [] OTHER -> c

lower(s) == [i \in 1..Len(s) |-> lower_char(s[i])]

RECURSIVE lstrip(_)
lstrip(s) ==
  IF s /= <<>> /\ Head(s) \in WhiteSpace THEN lstrip(Tail(s)) ELSE s

RECURSIVE rstrip(_)
rstrip(s) ==
  IF s /= <<>> /\ s[Len(s)] \in WhiteSpace
  THEN rstrip(SubSeq(s, 1, Len(s) - 1))
  ELSE s

strip(s) == rstrip(lstrip(s))

isdigit(s) == Len(s) > 0 /\ \A i \in 1..Len(s) : s[i] \in DigitChars

int_raises(s) == \E i \in 1..Len(s) : s[i] \notin DecimalChars

digit_value(c) ==
  CASE c = "0" -> 0 [] c = "1" -> 1 [] c = "2" -> 2 [] c = "3" -> 3
    [] c = "4" -> 4 [] c = "5" -> 5 [] c = "6" -> 6 [] c = "7" -> 7
    [] c = "8" -> 8 [] c = "9" -> 9

RECURSIVE int(_)
int(s) ==
  IF s = <<>> THEN 0
  ELSE 10 * int(SubSeq(s, 1, Len(s) - 1)) + digit_value(s[Len(s)])

(* list[idx] with Python's negative indexing; the caller keeps             *)
(* -len <= idx < len                                                       *)
py_index_next(list, idx) == list[idx + 2]

py_index(list, idx) == IF idx < 0 THEN list[Len(list) + idx + 1] ELSE list[idx + 1]

---------------------------------------------------------------------------
(* split_messages                                                          *)

normalize_char_keep(c) == c

normalize_char(c) == IF c \in {"SMAMP", "FWAMP", "TURNED"} THEN "&" ELSE c

normalize(raw) == [i \in 1..Len(raw) |-> normalize_char(raw[i])]

(* \b at the gap before position p (1 <= p <= Len(s)+1)                    *)
word_boundary(s, p) ==
  LET before == p > 1 /\ s[p - 1] \in WordChars
      after == p <= Len(s) /\ s[p] \in WordChars
  IN before /= after

(* length of the delimiter (& or the word "and") starting at p, 0 if none  *)
delimiter_at(s, p) ==
  IF s[p] = "&" THEN 1
  ELSE IF /\ p + 2 <= Len(s)
          /\ lower(SubSeq(s, p, p + 2)) = <<"a", "n", "d">>
          /\ word_boundary(s, p)
          /\ word_boundary(s, p + 3)
       THEN 3
       ELSE 0

(* re.split: the pieces between delimiters, cur is the piece being read    *)
RECURSIVE re_split(_, _, _)
re_split(s, p, cur) ==
  IF p > Len(s) THEN <<cur>>
  ELSE LET d == delimiter_at(s, p)
       IN IF d > 0
          THEN <<cur>> \o re_split(s, p + d, <<>>)
          ELSE re_split(s, p + 1, Append(cur, s[p]))

RECURSIVE strip_nonempty(_)
strip_nonempty(parts) ==
  IF parts = <<>> THEN <<>>
  ELSE LET q == strip(Head(parts))
       IN IF q /= <<>>
          THEN <<q>> \o strip_nonempty(Tail(parts))
          ELSE strip_nonempty(Tail(parts))

split_messages(raw) == strip_nonempty(re_split(normalize(raw), 1, <<>>))

---------------------------------------------------------------------------
(* Demo data                                                               *)

build_mock_groups ==
  <<"AAKASH", "Cudai Lounge", "Market Signals", "Crypto Talk", "Gaming Squad",
    "Misfits Boxing", "Design Critique", "Music Drops", "Startup Founders",
    "Late-Night Chat">>

---------------------------------------------------------------------------
(* Inbound events                                                          *)

T_GC == <<"G", "c">>
T_0 == <<"0">>
T_2 == <<" ", "2">>
T_11 == <<"1", "1">>
T_SUP == <<"SUP2">>
T_ABC == <<"a", " ", "&", " ", "b", " ", "a", "n", "d", " ", "c">>
T_BLANK == <<" ">>

(* text messages the model sends, and contents of the files it uploads     *)
Texts == {T_GC, T_0, T_2, T_11, T_SUP}

FileContents == {T_ABC, T_BLANK}

(* outcome of staging an attachment: download_to_drive raises before the   *)
(* file exists, raises after creating it, the read raises, or all succeed  *)
IoOutcomes == {"ok", "download_failed", "write_failed", "read_failed"}

Commands == {"start", "attack", "stop", "status", "help"}

(* update.message.text / update.message.document of a non-command event   *)
Messages ==
  [text : {Some(t) : t \in Texts}, document : {None}]
    \cup [text : {None}, document : {Some(f) : f \in FileContents}]

TextMessage(t) == [text |-> Some(t), document |-> None]

FileMessage(f) == [text |-> None, document |-> Some(f)]

(* The label step accepts every message and only stores its text, and the  *)
(* payload step hands every message to split_messages: at these two steps  *)
(* the model sends two texts and the two files, at the other steps every    *)
(* message of Messages.                                                    *)
LabelMessages ==
  {TextMessage(T_2), TextMessage(T_GC)}
    \cup {FileMessage(f) : f \in FileContents}

PayloadMessages ==
  {TextMessage(T_GC), TextMessage(T_11)}
    \cup {FileMessage(f) : f \in FileContents}

MessagesAt(step) ==
  CASE step = "session" -> LabelMessages
    [] step = "payload" -> PayloadMessages
    [] OTHER -> Messages

DEMO_SESSION == <<"d", "e", "m", "o", "-", "s", "e", "s", "s", "i", "o", "n">>

---------------------------------------------------------------------------
(* asyncio tasks.  A slot of tasks is free, or holds a coroutine that was  *)
(* created and has not run yet, or one suspended at asyncio.sleep(0).      *)
(* msgs, total and i are the coroutine's locals; n counts the increments   *)
(* of State.sent this coroutine has performed.                             *)

TaskIds == 1..MaxTasks

FreeTask ==
  [pc |-> "free", must_cancel |-> FALSE, msgs |-> <<>>, total |-> 0,
   i |-> 0, n |-> 0]

NewTask == [FreeTask EXCEPT !.pc = "created"]

FreeIds(ts) == {id \in TaskIds : ts[id].pc = "free"}

Min(S) == CHOOSE x \in S : \A y \in S : x <= y

cancel_noop(ts, h) == ts

(* Task.cancel(): a finished task ignores it, a pending one gets           *)
(* CancelledError thrown in at its next step                               *)
cancel(ts, h) ==
  IF h /= None /\ ts[h[1]].pc /= "free"
  THEN [ts EXCEPT ![h[1]].must_cancel = TRUE]
  ELSE ts

(* asyncio.create_task(dry_run_engine()) into slot id                      *)
create_task(ts, id) == [ts EXCEPT ![id] = NewTask]

limit_reached_late(total, s) == total > 0 /\ s > total

limit_reached_zero(total, s) == s >= total

limit_reached(total, s) == total > 0 /\ s >= total

---------------------------------------------------------------------------
(* Initial state                                                           *)

State0 ==
  [logged_in |-> FALSE, session_label |-> None, step |-> "None",
   mode |-> "None", targets |-> <<>>, messages |-> <<>>, send_count |-> 0,
   running |-> FALSE, sent |-> 0, started_at |-> None, task |-> None,
   mock_groups |-> <<>>]

(* last: the step taken last.  kind and uid name the handler and the       *)
(* sender ("engine", tid for a step of task tid); replies is the number of *)
(* reply_text calls the handler made, raised whether it ended in an        *)
(* exception, io what happened to the attachment it staged, raw the        *)
(* string it handed to split_messages (None if it did not call it)         *)
NoEvent ==
  [kind |-> "init", uid |-> "none", io |-> "none", replies |-> 0,
   raised |-> FALSE, tid |-> 0, raw |-> None]

Init ==
  /\ State = State0
  /\ tasks = [id \in TaskIds |-> FreeTask]
  /\ tmpfiles = 0
  /\ last = NoEvent

Event(kind, uid, msg, io, replies, raised) ==
  [kind |-> kind, uid |-> uid, io |-> io, replies |-> replies,
   raised |-> raised, tid |-> 0, raw |-> None]

NoMessage == [text |-> None, document |-> None]

(* a handler that returns or raises before touching anything               *)
Ignored(kind, uid, msg, raised) ==
  /\ last' = Event(kind, uid, msg, "none", 0, raised)
  /\ UNCHANGED <<State, tasks, tmpfiles>>

---------------------------------------------------------------------------
(* Dry-run engine                                                          *)

EngineEvent(id) ==
  [kind |-> "engine", uid |-> "none", io |-> "none", replies |-> 0,
   raised |-> FALSE, tid |-> id, raw |-> None]

loop_from_drops_handle(S, loc) ==
  IF ~S.running
  THEN [S |-> S, task |-> FreeTask]
  ELSE LET s1 == S.sent + 1
           i1 == (loc.i + 1) % Len(loc.msgs)
       IN IF limit_reached(loc.total, s1)
          THEN [S |-> [S EXCEPT !.sent = s1, !.running = FALSE,
                                !.task = None],
                task |-> FreeTask]
          ELSE [S |-> [S EXCEPT !.sent = s1],
                task |-> [loc EXCEPT !.pc = "suspended", !.i = i1,
                                     !.n = loc.n + 1]]

(* the while loop from its test to the next asyncio.sleep(0) or its end:   *)
(* S is the record, loc the coroutine's locals                             *)
loop_from(S, loc) ==
  IF ~S.running
  THEN [S |-> S, task |-> FreeTask]
  ELSE LET s1 == S.sent + 1
           i1 == (loc.i + 1) % Len(loc.msgs)
       IN IF limit_reached(loc.total, s1)
          THEN [S |-> [S EXCEPT !.sent = s1, !.running = FALSE],
                task |-> FreeTask]
          ELSE [S |-> [S EXCEPT !.sent = s1],
                task |-> [loc EXCEPT !.pc = "suspended", !.i = i1,
                                     !.n = loc.n + 1]]

engine_begin_keep_sent(S, t) == [S EXCEPT !.started_at = Some(t)]

(* the two assignments that open dry_run_engine                            *)
engine_begin(S, t) == [S EXCEPT !.started_at = Some(t), !.sent = 0]

(* the coroutine from its start to its first suspension or its end         *)
engine_first(S, t) ==
  LET S1 == engine_begin(S, t)
      loc == [NewTask EXCEPT !.msgs = S1.messages, !.total = S1.send_count]
  IN IF loc.msgs = <<>>
     THEN [S |-> [S1 EXCEPT !.running = FALSE], task |-> FreeTask]
     ELSE loop_from(S1, loc)

(* one scheduling of task id by the event loop                             *)
dry_run_engine(id) ==
  /\ tasks[id].pc /= "free"
  /\ last' = EngineEvent(id)
  /\ UNCHANGED tmpfiles
  /\ IF tasks[id].must_cancel
     THEN /\ tasks' = [tasks EXCEPT ![id] = FreeTask]
          /\ UNCHANGED State
     ELSE /\ (tasks[id].pc = "suspended" /\ State.running)
               => State.sent < MaxSent
          /\ \E t \in Times :
               LET r == IF tasks[id].pc = "created"
                        THEN engine_first(State, t)
                        ELSE loop_from(State, tasks[id])
               IN /\ State' = r.S
                  /\ tasks' = [tasks EXCEPT ![id] = r.task]

---------------------------------------------------------------------------
(* Commands                                                                *)

Replied(kind, uid, msg, io) ==
  last' = Event(kind, uid, msg, io, 1, FALSE)

start_cmd_keeps_login(uid) ==
  IF ~is_owner(uid)
  THEN Ignored("start", uid, NoMessage, FALSE)
  ELSE /\ State' = [State EXCEPT !.session_label = None, !.step = "session"]
       /\ Replied("start", uid, NoMessage, "none")
       /\ UNCHANGED <<tasks, tmpfiles>>

start_cmd_stops_engine(uid) ==
  IF ~is_owner(uid)
  THEN Ignored("start", uid, NoMessage, FALSE)
  ELSE /\ State' = [State EXCEPT !.logged_in = FALSE,
                                 !.session_label = None,
                                 !.step = "session",
                                 !.running = FALSE]
       /\ Replied("start", uid, NoMessage, "none")
       /\ UNCHANGED <<tasks, tmpfiles>>

start_cmd(uid) ==
  IF ~is_owner(uid)
  THEN Ignored("start", uid, NoMessage, FALSE)
  ELSE /\ State' = [State EXCEPT !.logged_in = FALSE,
                                 !.session_label = None,
                                 !.step = "session"]
       /\ Replied("start", uid, NoMessage, "none")
       /\ UNCHANGED <<tasks, tmpfiles>>

attack_cmd_without_login(uid) ==
  IF ~is_owner(uid)
  THEN Ignored("attack", uid, NoMessage, FALSE)
  ELSE /\ State' = [State EXCEPT !.step = "mode"]
       /\ Replied("attack", uid, NoMessage, "none")
       /\ UNCHANGED <<tasks, tmpfiles>>

attack_cmd(uid) ==
  IF ~is_owner(uid)
  THEN Ignored("attack", uid, NoMessage, FALSE)
  ELSE IF ~State.logged_in
  THEN /\ Replied("attack", uid, NoMessage, "none")
       /\ UNCHANGED <<State, tasks, tmpfiles>>
  ELSE /\ State' = [State EXCEPT !.step = "mode"]
       /\ Replied("attack", uid, NoMessage, "none")
       /\ UNCHANGED <<tasks, tmpfiles>>

stop_cmd_keeps_running(uid) ==
  IF ~is_owner(uid)
  THEN Ignored("stop", uid, NoMessage, FALSE)
  ELSE /\ State' = [State EXCEPT !.task = None]
       /\ tasks' = cancel(tasks, State.task)
       /\ Replied("stop", uid, NoMessage, "none")
       /\ UNCHANGED tmpfiles

stop_cmd(uid) ==
  IF ~is_owner(uid)
  THEN Ignored("stop", uid, NoMessage, FALSE)
  ELSE /\ State' = [State EXCEPT !.running = FALSE, !.task = None]
       /\ tasks' = cancel(tasks, State.task)
       /\ Replied("stop", uid, NoMessage, "none")
       /\ UNCHANGED tmpfiles

status_cmd(uid) ==
  IF ~is_owner(uid)
  THEN Ignored("status", uid, NoMessage, FALSE)
  ELSE /\ Replied("status", uid, NoMessage, "none")
       /\ UNCHANGED <<State, tasks, tmpfiles>>

help_cmd(uid) ==
  IF ~is_owner(uid)
  THEN Ignored("help", uid, NoMessage, FALSE)
  ELSE /\ Replied("help", uid, NoMessage, "none")
       /\ UNCHANGED <<State, tasks, tmpfiles>>

---------------------------------------------------------------------------
(* Text router (wizard state machine)                                      *)

(* update.message.text or ""                                               *)
text_or_empty(msg) == IF msg.text = None THEN <<>> ELSE msg.text[1]

(* a handler that raises before it has assigned anything                   *)
Raised(uid, msg, io) ==
  /\ last' = Event("message", uid, msg, io, 0, TRUE)
  /\ UNCHANGED <<State, tasks>>

router_session_silent(uid, msg, text) ==
  /\ State' = [State EXCEPT !.logged_in = TRUE,
                            !.session_label =
                               Some(IF text /= <<>> THEN text ELSE DEMO_SESSION),
                            !.step = "None"]
  /\ last' = Event("message", uid, msg, "none", 0, FALSE)
  /\ UNCHANGED <<tasks, tmpfiles>>

router_session(uid, msg, text) ==
  /\ State' = [State EXCEPT !.logged_in = TRUE,
                            !.session_label =
                               Some(IF text /= <<>> THEN text ELSE DEMO_SESSION),
                            !.step = "None"]
  /\ Replied("message", uid, msg, "none")
  /\ UNCHANGED <<tasks, tmpfiles>>

is_gc_any(text) == TRUE

is_gc(text) == lower(text) = <<"g", "c">>

router_mode(uid, msg) ==
  /\ State' = [State EXCEPT !.mode = "GC",
                            !.mock_groups = build_mock_groups,
                            !.step = "gc_pick"]
  /\ Replied("message", uid, msg, "none")
  /\ UNCHANGED <<tasks, tmpfiles>>

invalid_index_no_lower(idx, n) == idx >= n

invalid_index(idx, n) == idx < 0 \/ idx >= n

step_after_pick_skip == "count"

step_after_pick == "payload"

router_pick(uid, msg, text) ==
  IF int_raises(text)
  THEN Raised(uid, msg, "none") /\ UNCHANGED tmpfiles
  ELSE LET idx == int(text) - 1
       IN IF invalid_index(idx, Len(State.mock_groups))
          THEN /\ Replied("message", uid, msg, "none")
               /\ UNCHANGED <<State, tasks, tmpfiles>>
          ELSE /\ State' = [State EXCEPT
                              !.targets = <<py_index(State.mock_groups, idx)>>,
                              !.step = step_after_pick]
               /\ Replied("message", uid, msg, "none")
               /\ UNCHANGED <<tasks, tmpfiles>>

payload_read_accepts_empty(uid, msg, io, raw) ==
  LET msgs == split_messages(raw)
  IN /\ last' = [Event("message", uid, msg, io, 1, FALSE)
                   EXCEPT !.raw = Some(raw)]
     /\ UNCHANGED tasks
     /\ State' = [State EXCEPT !.messages = msgs, !.step = "count"]

(* the payload step once read_messages has the string raw to split        *)
payload_read(uid, msg, io, raw) ==
  LET msgs == split_messages(raw)
  IN /\ last' = [Event("message", uid, msg, io, 1, FALSE)
                   EXCEPT !.raw = Some(raw)]
     /\ UNCHANGED tasks
     /\ IF msgs = <<>>
        THEN UNCHANGED State
        ELSE State' = [State EXCEPT !.messages = msgs, !.step = "count"]

(* read_messages on an attachment.  download_failed: download_to_drive     *)
(* raises before the temporary file exists; write_failed: it raises after  *)
(* creating it; read_failed: open/read raises.  os.remove runs only when   *)
(* all of them succeeded.                                                  *)
read_document(uid, msg, io) ==
  CASE io = "download_failed" ->
         Raised(uid, msg, io) /\ UNCHANGED tmpfiles
    [] io \in {"write_failed", "read_failed"} ->
         /\ tmpfiles < MaxTmp
         /\ tmpfiles' = tmpfiles + 1
         /\ Raised(uid, msg, io)
    [] io = "ok" ->
         /\ UNCHANGED tmpfiles
         /\ payload_read(uid, msg, io, msg.document[1])

router_payload(uid, msg) ==
  IF msg.document /= None
  THEN \E io \in IoOutcomes : read_document(uid, msg, io)
  ELSE /\ UNCHANGED tmpfiles
       /\ payload_read(uid, msg, "none", text_or_empty(msg))

router_count_zeroes_sent(uid, msg, text) ==
  IF int_raises(text)
  THEN Raised(uid, msg, "none") /\ UNCHANGED tmpfiles
  ELSE /\ FreeIds(tasks) /= {}
       /\ LET id == Min(FreeIds(tasks))
          IN /\ State' = [State EXCEPT !.send_count = int(text),
                                       !.running = TRUE,
                                       !.sent = 0,
                                       !.step = "None",
                                       !.task = Some(id)]
             /\ tasks' = create_task(cancel(tasks, State.task), id)
       /\ Replied("message", uid, msg, "none")
       /\ UNCHANGED tmpfiles

router_count(uid, msg, text) ==
  IF int_raises(text)
  THEN Raised(uid, msg, "none") /\ UNCHANGED tmpfiles
  ELSE /\ FreeIds(tasks) /= {}
       /\ LET id == Min(FreeIds(tasks))
          IN /\ State' = [State EXCEPT !.send_count = int(text),
                                       !.running = TRUE,
                                       !.step = "None",
                                       !.task = Some(id)]
             /\ tasks' = create_task(cancel(tasks, State.task), id)
       /\ Replied("message", uid, msg, "none")
       /\ UNCHANGED tmpfiles

text_router(uid, msg) ==
  IF ~is_owner(uid)
  THEN Ignored("message", uid, msg, FALSE)
  ELSE LET text == strip(text_or_empty(msg))
           step == State.step
       IN IF step = "session" THEN router_session(uid, msg, text)
          ELSE IF step = "mode" /\ is_gc(text) THEN router_mode(uid, msg)
          ELSE IF step = "gc_pick" /\ isdigit(text)
               THEN router_pick(uid, msg, text)
          ELSE IF step = "payload" THEN router_payload(uid, msg)
          ELSE IF step = "count" /\ isdigit(text)
               THEN router_count(uid, msg, text)
          ELSE Ignored("message", uid, msg, FALSE)

---------------------------------------------------------------------------
(* The application.  Updates are handled one at a time, each by the first  *)
(* handler that matches (main).  The engine tasks run at the awaits of the *)
(* handlers and between them.                                              *)
(*                                                                         *)
(* The event loop runs its ready queue in FIFO order and drains it before  *)
(* it polls for I/O.  create_task puts the new task's first step on that   *)
(* queue, and a task suspended in asyncio.sleep(0) is always on it, so a   *)
(* task that was just created or just cancelled takes its step while the   *)
(* handler that did it is still waiting for reply_text to complete: no     *)
(* later handler runs before that step.                                    *)

NoPendingWakeup_starved == \A id \in TaskIds : tasks[id].pc = "free"

NoPendingWakeup ==
  \A id \in TaskIds : tasks[id].pc /= "created" /\ ~tasks[id].must_cancel

Next ==
  \/ \E uid \in Uids : NoPendingWakeup /\ start_cmd(uid)
  \/ \E uid \in Uids : NoPendingWakeup /\ attack_cmd(uid)
  \/ \E uid \in Uids : NoPendingWakeup /\ stop_cmd(uid)
  \/ \E uid \in Uids : NoPendingWakeup /\ status_cmd(uid)
  \/ \E uid \in Uids : NoPendingWakeup /\ help_cmd(uid)
  \/ \E uid \in Uids, msg \in MessagesAt(State.step) :
       NoPendingWakeup /\ text_router(uid, msg)
  \/ \E id \in TaskIds : dry_run_engine(id)

Spec == Init /\ [][Next]_vars

(* the event loop runs every task that is ready                            *)
SpecFair == Spec /\ \A id \in TaskIds : WF_vars(dry_run_engine(id))

(* A stop command the owner has issued waits in the update queue and is    *)
(* handled once the updates before it are, provided the event loop gets to *)
(* run handlers at all: the stop handler is not passed over forever.       *)
SpecStop ==
  SpecFair /\ SF_vars(NoPendingWakeup /\ stop_cmd(OWNER_TG_ID))

---------------------------------------------------------------------------
(* split_messages on its own: the wizard waits at the payload step and the *)
(* owner sends one payload, as a text or as a file.  The payloads are the  *)
(* concatenations of at most MaxPieces tokens, and the file contents of    *)
(* the application model.                                                  *)

SplitTokens ==
  {<<"x">>, <<"y">>, <<" ">>, <<"&">>, <<"FWAMP">>, <<"TURNED">>,
   <<"a", "n", "d">>, <<"A", "N", "D">>}

RECURSIVE Flatten(_)
Flatten(ss) == IF ss = <<>> THEN <<>> ELSE Head(ss) \o Flatten(Tail(ss))

T_SMALL == <<"x", "SMAMP", "y">>

SplitInputs ==
  {Flatten(ts) : ts \in UNION {[1..n -> SplitTokens] : n \in 0..MaxPieces}}
    \cup FileContents \cup {T_SMALL}

(* the record once the wizard has accepted the first demo group            *)
SplitInit ==
  /\ State = [State0 EXCEPT !.logged_in = TRUE,
                            !.session_label = Some(DEMO_SESSION),
                            !.mode = "GC",
                            !.mock_groups = build_mock_groups,
                            !.targets = <<build_mock_groups[1]>>,
                            !.step = "payload"]
  /\ tasks = [id \in TaskIds |-> FreeTask]
  /\ tmpfiles = 0
  /\ last = NoEvent

SplitNext ==
  \E raw \in SplitInputs :
    \E msg \in {TextMessage(raw), FileMessage(raw)} :
      /\ last = NoEvent
      /\ text_router(OWNER_TG_ID, msg)

SpecSplit == SplitInit /\ [][SplitNext]_vars

---------------------------------------------------------------------------
(* Vocabulary of the properties                                            *)

HandlerKinds == Commands \cup {"message"}

ByOwner(kind) == last.kind = kind /\ last.uid = OWNER_TG_ID

(* the engine tasks that can still increment State.sent: those that have   *)
(* not finished and have no cancellation pending                           *)
AbleLoops == {id \in TaskIds : tasks[id].pc /= "free" /\ ~tasks[id].must_cancel}

HandleIs(id) == State.task = Some(id)

---------------------------------------------------------------------------
(* C1: an event whose sender is not the owner gets no reply and changes    *)
(* nothing, whichever handler it reaches and whatever the state: the       *)
(* record (step, running and the task handle included), the tasks and the  *)
(* files all stay as they were.                                            *)
C1_NonOwnerIgnored ==
  [][(last'.kind \in HandlerKinds /\ last'.uid /= OWNER_TG_ID)
       => /\ last'.replies = 0
          /\ State' = State
          /\ tasks' = tasks
          /\ tmpfiles' = tmpfiles]_vars

(* a stranger's stop command arrived while the loop was running in the     *)
(* middle of a wizard run, and the loop is still running                   *)
C1_Witness ==
  /\ last.kind = "stop"
  /\ last.uid = OTHER_TG_ID
  /\ State.running
  /\ State.step = "payload"
  /\ \E id \in TaskIds : HandleIs(id) /\ tasks[id].pc = "suspended"

---------------------------------------------------------------------------
(* C2: a loop launched with limit L > 0 that is neither stopped nor        *)
(* replaced ends with running = FALSE and sent = L, and while it runs sent  *)
(* stays below L.  The loop is the task the handle names: a stop clears    *)
(* the handle, a later launch stores a newly created task in it.  Limits   *)
(* above MaxSent are outside the model: its engine stops counting at       *)
(* MaxSent.                                                                *)

LimitInModel == State.send_count \in 1..MaxSent

(* the handle's task was created and has not run yet                       *)
Launched == \E id \in TaskIds : HandleIs(id) /\ tasks[id].pc = "created"

(* the handle's task is suspended between two iterations                   *)
Counting == \E id \in TaskIds : HandleIs(id) /\ tasks[id].pc = "suspended"

(* the handle's task has returned, with sent at the limit                  *)
LoopEnded ==
  /\ \E id \in TaskIds : HandleIs(id) /\ tasks[id].pc = "free"
  /\ ~State.running
  /\ State.sent = State.send_count

C2_WithinLimit ==
  /\ (Counting /\ State.send_count > 0)
       => (State.running /\ State.sent < State.send_count)
  /\ ((\E id \in TaskIds : HandleIs(id) /\ tasks[id].pc = "free")
        /\ State.send_count > 0)
       => (~State.running /\ State.sent = State.send_count)

C2_CountedLoopTerminates ==
  /\ []C2_WithinLimit
  /\ (Launched /\ LimitInModel) ~> (Counting \/ LoopEnded)
  /\ (Counting /\ LimitInModel) ~> (LoopEnded \/ State.task = None \/ Launched)

(* a loop with limit 2 has ended by itself with sent = 2                   *)
C2_Witness ==
  /\ last.kind = "engine"
  /\ LoopEnded
  /\ State.send_count = 2
  /\ State.sent = 2

---------------------------------------------------------------------------
(* C3: the owner's stop leaves running = FALSE, and from then until the    *)
(* next launch stores a handle again no step changes sent (a step taken    *)
(* while no handle is stored leaves sent as it is; the launch itself is    *)
(* such a step).                                                           *)
C3_StopFreezesSent ==
  [][/\ (last'.kind = "stop" /\ last'.uid = OWNER_TG_ID)
          => (~State'.running /\ State'.task = None)
     /\ State.task = None => State'.sent = State.sent]_vars

(* the stopped loop has been scheduled once more after the stop that       *)
(* interrupted it, and sent is what it was                                 *)
C3_Witness ==
  /\ last.kind = "engine"
  /\ State.task = None
  /\ ~State.running
  /\ State.sent > 0
  /\ State.send_count = 0
  /\ tasks[last.tid].pc = "free"

---------------------------------------------------------------------------
(* C4: a launch while an earlier loop is active.  Every unfinished task    *)
(* other than the one the handle names has its cancellation requested, a   *)
(* step of such a task leaves sent unchanged, and once the task the handle *)
(* names has started, sent is the number of increments that task made.     *)

C4_OthersCancelled ==
  \A id \in TaskIds :
    (tasks[id].pc /= "free" /\ ~HandleIs(id)) => tasks[id].must_cancel

C4_SentIsOwnCount ==
  \A id \in TaskIds :
    (HandleIs(id) /\ tasks[id].pc = "suspended") => State.sent = tasks[id].n

C4_SecondLoopCountsAlone ==
  /\ [](C4_OthersCancelled /\ C4_SentIsOwnCount)
  /\ [][(last'.kind = "engine" /\ ~HandleIs(last'.tid))
          => State'.sent = State.sent]_vars

(* the second loop has just been created while the first, suspended after  *)
(* two increments, has its cancellation pending                            *)
C4_Witness ==
  \E old, new \in TaskIds :
    /\ old /= new
    /\ tasks[old].pc = "suspended" /\ tasks[old].must_cancel
    /\ tasks[old].n = 2
    /\ HandleIs(new) /\ tasks[new].pc = "created"
    /\ State.sent = 2

---------------------------------------------------------------------------
(* C5: at most one task can increment sent, and while running is TRUE      *)
(* there is exactly one and the handle names it.                           *)
C5_SingleActiveLoop ==
  /\ Cardinality(AbleLoops) <= 1
  /\ State.running => (State.task /= None /\ AbleLoops = {State.task[1]})

(* the new loop is already counting while the loop it replaced still has   *)
(* its cancellation pending                                                *)
C5_Witness ==
  \E old, new \in TaskIds :
    /\ old /= new
    /\ tasks[old].pc = "suspended" /\ tasks[old].must_cancel
    /\ HandleIs(new) /\ tasks[new].pc = "suspended"
    /\ State.running

---------------------------------------------------------------------------
(* C6: how step changes.                                                   *)

(* the fixed order None -> session -> mode -> gc_pick -> payload -> count  *)
(* -> None                                                                 *)
Successor(st) ==
  CASE st = "None" -> "session"
    [] st = "session" -> "mode"
    [] st = "mode" -> "gc_pick"
    [] st = "gc_pick" -> "payload"
    [] st = "payload" -> "count"
    [] st = "count" -> "None"

(* C6 as stated: every change of step goes to the immediate successor in   *)
(* the fixed order or back to None                                         *)
C6_OnlySuccessorOrReset ==
  [][State'.step /= State.step
       => (State'.step = Successor(State.step) \/ State'.step = "None")]_vars

(* C6 as amended: start-session sets step to session from any step,        *)
(* configure-send by a logged-in owner sets it to mode from any step, and  *)
(* the text router moves session to None and otherwise one step forward    *)
(* in mode -> gc_pick -> payload -> count -> None; nothing else changes    *)
(* step.                                                                   *)
C6_StepChanges ==
  [][State'.step /= State.step
       => \/ last'.kind = "start" /\ State'.step = "session"
          \/ last'.kind = "attack" /\ State.logged_in /\ State'.step = "mode"
          \/ /\ last'.kind = "message"
             /\ State.step = "session"
             /\ State'.step = "None"
          \/ /\ last'.kind = "message"
             /\ State.step \in {"mode", "gc_pick", "payload", "count"}
             /\ State'.step = Successor(State.step)]_vars

(* configure-send has taken the wizard back to its mode step after an      *)
(* earlier run had already collected a payload                             *)
C6_Witness ==
  /\ ByOwner("attack")
  /\ State.step = "mode"
  /\ State.messages /= <<>>

---------------------------------------------------------------------------
(* C7: the three validation failures get exactly one reply and change      *)
(* nothing: an index outside 1..Len(mock_groups) at gc_pick, a payload     *)
(* that splits to no message at payload, configure-send before login.      *)

StripText(msg) == strip(text_or_empty(msg))

IndexOutOfRange(msg) ==
  /\ State.step = "gc_pick"
  /\ isdigit(StripText(msg))
  /\ ~int_raises(StripText(msg))
  /\ int(StripText(msg)) \notin 1..Len(State.mock_groups)

(* the string read_messages splits: the file's content or the text         *)
RawPayload(msg) ==
  IF msg.document /= None THEN msg.document[1] ELSE text_or_empty(msg)

EmptyPayload(msg) ==
  /\ State.step = "payload"
  /\ split_messages(RawPayload(msg)) = <<>>
  /\ last'.io \in {"none", "ok"}

OneReplyNothingChanged ==
  /\ last'.replies = 1
  /\ State' = State
  /\ tasks' = tasks
  /\ tmpfiles' = tmpfiles

OwnerMessageAt(steps) ==
  /\ last'.kind = "message"
  /\ last'.uid = OWNER_TG_ID
  /\ State.step \in steps

C7_ValidationFailures ==
  [][/\ OwnerMessageAt({"gc_pick", "payload"})
          => \A msg \in Messages :
               ((IndexOutOfRange(msg) \/ EmptyPayload(msg))
                  /\ text_router(OWNER_TG_ID, msg))
                 => OneReplyNothingChanged
     /\ (~State.logged_in /\ last'.kind = "attack"
           /\ attack_cmd(OWNER_TG_ID))
          => OneReplyNothingChanged]_vars

(* an index was refused at gc_pick after an earlier run had already picked *)
(* a target: the refusal left that target in place                         *)
C7_Witness ==
  /\ ByOwner("message")
  /\ State.step = "gc_pick"
  /\ last.replies = 1
  /\ State.targets /= <<>>

---------------------------------------------------------------------------
(* C8: input a step does not recognize, at mode, gc_pick and count.        *)

NonNumeric(text) == text = <<>> \/ int_raises(text)

Unrecognized(msg) ==
  \/ State.step = "mode" /\ lower(StripText(msg)) /= <<"g", "c">>
  \/ State.step = "gc_pick" /\ NonNumeric(StripText(msg))
  \/ State.step = "count" /\ NonNumeric(StripText(msg))

(* C8 as stated: such input gets an error reply and leaves step unchanged  *)
C8_UnrecognizedGetsErrorReply ==
  [][OwnerMessageAt({"mode", "gc_pick", "count"})
       => \A msg \in Messages :
            (Unrecognized(msg) /\ text_router(OWNER_TG_ID, msg))
              => (last'.replies >= 1 /\ State'.step = State.step)]_vars

(* C8 as amended: such input gets no reply and leaves step, and the rest   *)
(* of the record, unchanged                                                *)
C8_UnrecognizedIgnored ==
  [][OwnerMessageAt({"mode", "gc_pick", "count"})
       => \A msg \in Messages :
            (Unrecognized(msg) /\ text_router(OWNER_TG_ID, msg))
              => /\ last'.replies = 0
                 /\ State' = State
                 /\ tasks' = tasks]_vars

(* the owner's message at the count step went unanswered                   *)
C8_Witness ==
  /\ ByOwner("message")
  /\ State.step = "count"
  /\ last.replies = 0
  /\ last.io = "none"

---------------------------------------------------------------------------
(* C9: a handler that staged an attachment in a temporary file leaves no   *)
(* temporary file behind, whether staging and reading succeeded or not.    *)
C9_TempFileRemoved ==
  [][(last'.kind = "message"
        /\ last'.io \in {"ok", "write_failed", "read_failed"})
       => tmpfiles' = tmpfiles]_vars

---------------------------------------------------------------------------
(* C10: a handler replies at most once; an owner's event that changes the  *)
(* record, or that validation rejects, gets exactly one reply; an event    *)
(* that gets no reply leaves the record unchanged.                         *)
C10_Replies ==
  [][/\ last'.kind \in HandlerKinds
          => /\ last'.replies <= 1
             /\ State' /= State => last'.replies = 1
             /\ last'.replies = 0 => (State' = State /\ tasks' = tasks)
     /\ OwnerMessageAt({"gc_pick", "payload"})
          => \A msg \in Messages :
               ((IndexOutOfRange(msg) \/ EmptyPayload(msg))
                  /\ text_router(OWNER_TG_ID, msg))
                 => last'.replies = 1
     /\ (~State.logged_in /\ last'.kind = "attack"
           /\ attack_cmd(OWNER_TG_ID))
          => last'.replies = 1]_vars

(* the payload step accepted its input, stored it and replied              *)
C10_Witness ==
  /\ ByOwner("message")
  /\ State.step = "count"
  /\ State.messages /= <<>>
  /\ last.replies = 1

---------------------------------------------------------------------------
(* C11: a loop launched with limit 0 never clears running by itself.  An   *)
(* iteration of the handle's loop adds one to sent (the first one counts   *)
(* from 0) and leaves running TRUE, and while the limit is 0 running goes  *)
(* from TRUE to FALSE only in the owner's stop command.  A later launch    *)
(* keeps running TRUE and stores another task in the handle.               *)
C11_UnboundedLoop ==
  [][/\ (/\ last'.kind = "engine"
         /\ HandleIs(last'.tid)
         /\ ~tasks[last'.tid].must_cancel
         /\ State.running
         /\ State.send_count = 0)
          => /\ State'.running
             /\ tasks'[last'.tid].pc = "suspended"
             /\ State'.sent = IF tasks[last'.tid].pc = "created"
                              THEN 1
                              ELSE State.sent + 1
     /\ (State.running /\ State.send_count = 0 /\ ~State'.running)
          => (last'.kind = "stop" /\ last'.uid = OWNER_TG_ID)]_vars

(* the loop with limit 0 has just made its second iteration and is still   *)
(* running                                                                 *)
C11_Witness ==
  /\ last.kind = "engine"
  /\ HandleIs(last.tid)
  /\ tasks[last.tid].pc = "suspended"
  /\ tasks[last.tid].total = 0
  /\ State.send_count = 0
  /\ State.running
  /\ State.sent = 2

---------------------------------------------------------------------------
(* C12: the owner's start-session command, in any state, leaves step =     *)
(* session, logged_in = FALSE and no session label, and this lasts as long *)
(* as step is session; the owner's next text or file message then sets     *)
(* logged_in, stores a label (the trimmed text when there is one) and sets *)
(* step to None.                                                           *)
C12_StartThenLogin ==
  /\ [](State.step = "session"
          => (~State.logged_in /\ State.session_label = None))
  /\ [][/\ (last'.kind = "start" /\ last'.uid = OWNER_TG_ID)
             => /\ State'.step = "session"
                /\ ~State'.logged_in
                /\ State'.session_label = None
        /\ OwnerMessageAt({"session"})
             => \A msg \in LabelMessages :
                  text_router(OWNER_TG_ID, msg)
                    => /\ State'.logged_in
                       /\ State'.step = "None"
                       /\ State'.session_label /= None
                       /\ StripText(msg) /= <<>>
                            => State'.session_label = Some(StripText(msg))]_vars

(* the owner has logged in again, with the label "2", while the loop that  *)
(* was launched under the earlier login is still counting                  *)
C12_Witness ==
  /\ ByOwner("message")
  /\ last.replies = 1
  /\ State.logged_in
  /\ State.step = "None"
  /\ State.session_label = Some(<<"2">>)
  /\ State.running
  /\ Counting

---------------------------------------------------------------------------
(* C13: targets never holds more than one entry; it changes only in the    *)
(* owner's message at the gc_pick step, and only when the trimmed text is  *)
(* a number k with 1 <= k <= Len(mock_groups): that message sets targets   *)
(* to the one-element list of the k-th group and step to payload, and any  *)
(* other message at that step leaves targets as it is.                     *)

ValidIndex(msg) ==
  /\ isdigit(StripText(msg))
  /\ ~int_raises(StripText(msg))
  /\ int(StripText(msg)) \in 1..Len(State.mock_groups)

C13_TargetsFromValidPick ==
  /\ [](Len(State.targets) <= 1)
  /\ [][/\ State'.targets /= State.targets
             => OwnerMessageAt({"gc_pick"})
        /\ OwnerMessageAt({"gc_pick"})
             => \A msg \in Messages :
                  text_router(OWNER_TG_ID, msg)
                    => IF ValidIndex(msg)
                       THEN /\ State'.targets =
                                 <<State.mock_groups[int(StripText(msg))]>>
                            /\ State'.step = "payload"
                       ELSE State'.targets = State.targets]_vars

(* the pick "2" has just been accepted: targets is the second demo group   *)
C13_Witness ==
  /\ ByOwner("message")
  /\ last.replies = 1
  /\ last.raw = None
  /\ State.step = "payload"
  /\ State.targets = <<"Cudai Lounge">>

---------------------------------------------------------------------------
(* C14: what split_messages returns for the string raw the payload step    *)
(* hands it.  No piece is empty, starts or ends with whitespace, or holds  *)
(* an ampersand (plain or look-alike) or the whole word "and" in any       *)
(* letter case; the letters outside "and" come out in their original       *)
(* order; a string without ampersand and without the whole word "and" is   *)
(* one piece, its trimmed self; "a & b and c" gives a, b, c; an empty or   *)
(* blank string gives no piece, and the payload step then replies and      *)
(* changes nothing, and otherwise stores the pieces.                       *)

Ampersands == {"&", "SMAMP", "FWAMP", "TURNED"}

HasAmpersand(s) == \E p \in 1..Len(s) : s[p] \in Ampersands

(* "and" in any letter case at p, with no word character on either side    *)
WholeWordAnd(s, p) ==
  /\ p + 2 <= Len(s)
  /\ s[p] \in {"a", "A"} /\ s[p + 1] \in {"n", "N"} /\ s[p + 2] \in {"d", "D"}
  /\ p > 1 => s[p - 1] \notin WordChars
  /\ p + 3 <= Len(s) => s[p + 3] \notin WordChars

HasWholeWordAnd(s) == \E p \in 1..Len(s) : WholeWordAnd(s, p)

MarkerLetters == {"x", "y", "b", "c"}

Markers(s) == SelectSeq(s, LAMBDA ch : ch \in MarkerLetters)

SplitResult(raw, out) ==
  /\ \A k \in 1..Len(out) :
       /\ out[k] /= <<>>
       /\ out[k][1] \notin WhiteSpace
       /\ out[k][Len(out[k])] \notin WhiteSpace
       /\ ~HasAmpersand(out[k])
       /\ ~HasWholeWordAnd(out[k])
  /\ Markers(Flatten(out)) = Markers(raw)
  /\ (~HasAmpersand(raw) /\ ~HasWholeWordAnd(raw))
       => out = IF strip(raw) = <<>> THEN <<>> ELSE <<strip(raw)>>
  /\ raw = T_ABC => out = <<<<"a">>, <<"b">>, <<"c">>>>
  /\ (\A p \in 1..Len(raw) : raw[p] \in WhiteSpace) => out = <<>>

C14_SplitMessages ==
  [][last'.raw /= None
       => LET raw == last'.raw[1]
              out == split_messages(raw)
          IN /\ SplitResult(raw, out)
             /\ IF out = <<>>
                THEN State' = State /\ last'.replies = 1
                ELSE State'.messages = out /\ State'.step = "count"]_vars

(* the file "a & b and c" has been read, split and stored                  *)
C14_Witness ==
  /\ last.raw = Some(T_ABC)
  /\ last.io = "ok"
  /\ State.messages = <<<<"a">>, <<"b">>, <<"c">>>>
  /\ State.step = "count"

---------------------------------------------------------------------------
(* C15: sent while running is TRUE.                                        *)

(* the step is the first one of a newly created engine task                *)
LoopStarts == last'.kind = "engine" /\ tasks[last'.tid].pc = "created"

(* C15 as stated: in every step with running TRUE before and after, sent   *)
(* does not decrease, the step in which a newly launched loop starts       *)
(* included                                                                *)
C15_SentNeverDecreases ==
  [][(State.running /\ State'.running) => State'.sent >= State.sent]_vars

(* C15 as amended: in every step with running TRUE before and after, sent  *)
(* does not decrease, except in the step in which a newly launched loop    *)
(* starts: that step restarts the count and leaves sent = 1, whatever it   *)
(* was                                                                     *)
C15_SentRestartsAtLoopStart ==
  [][(State.running /\ State'.running)
       => IF LoopStarts
          THEN State'.sent = 1
          ELSE State'.sent >= State.sent]_vars

(* the new loop has made its first iteration, with sent back at 1, while   *)
(* the loop it replaced had counted to 2                                   *)
C15_Witness ==
  /\ last.kind = "engine"
  /\ HandleIs(last.tid)
  /\ tasks[last.tid].n = 1
  /\ State.sent = 1
  /\ State.running
  /\ \E old \in TaskIds : tasks[old].must_cancel /\ tasks[old].n = 2

---------------------------------------------------------------------------
---------------------------------------------------------------------------
(* C17: a step of an engine task sends no reply and changes nothing of the *)
(* record but sent, running and started_at: step, logged_in,               *)
(* session_label, mode, targets, messages, send_count, mock_groups and the *)
(* task handle stay as they were, and so do the files.                     *)
C17_EngineFrame ==
  [][last'.kind = "engine"
       => /\ last'.replies = 0
          /\ State' = [State EXCEPT !.sent = State'.sent,
                                    !.running = State'.running,
                                    !.started_at = State'.started_at]
          /\ tmpfiles' = tmpfiles]_vars

(* the loop has just ended at its limit: the configuration it ran with and *)
(* the handle are still in the record                                      *)
C17_Witness ==
  /\ last.kind = "engine"
  /\ ~State.running
  /\ State.sent = 2
  /\ State.send_count = 2
  /\ State.started_at /= None
  /\ State.task = Some(last.tid)
  /\ State.mode = "GC"
  /\ State.targets /= <<>>
  /\ State.messages /= <<>>
  /\ State.logged_in

---------------------------------------------------------------------------
(* C18: at the steps mode, gc_pick, payload and count the owner is logged  *)
(* in.  configure-send sets step to mode only when logged_in is TRUE, and  *)
(* logged_in goes from TRUE to FALSE only in start-session, which sets     *)
(* step to session.                                                        *)

WizardSteps == {"mode", "gc_pick", "payload", "count"}

C18_WizardNeedsLogin ==
  /\ [](State.step \in WizardSteps => State.logged_in)
  /\ [][/\ (last'.kind = "attack" /\ State'.step /= State.step)
             => (State.logged_in /\ State'.step = "mode")
        /\ (State.logged_in /\ ~State'.logged_in)
             => (last'.kind = "start" /\ State'.step = "session")]_vars

(* configure-send was refused after a start-session dropped the login in   *)
(* the middle of a wizard run: step is still session                       *)
C18_Witness ==
  /\ ByOwner("attack")
  /\ last.replies = 1
  /\ ~State.logged_in
  /\ State.step = "session"
  /\ State.targets /= <<>>

---------------------------------------------------------------------------
(* C19: when a loop is launched, and whenever running is TRUE, the         *)
(* configuration is complete: messages is not empty, targets is one of the *)
(* demo groups and mode is "GC".  The engine therefore never leaves by its *)
(* empty-pool exit: the first step of a task finds messages non-empty and  *)
(* clears running only when the limit is 1.                                *)

ConfigComplete ==
  /\ State.messages /= <<>>
  /\ Len(State.targets) = 1
  /\ \E k \in 1..Len(State.mock_groups) : State.targets[1] = State.mock_groups[k]
  /\ State.mode = "GC"

C19_LaunchedComplete ==
  /\ []((State.running \/ \E id \in TaskIds : tasks[id].pc = "created")
          => ConfigComplete)
  /\ [][LoopStarts
          => /\ State.messages /= <<>>
             /\ State'.sent = 1
             /\ ~State'.running => State.send_count = 1]_vars

(* a loop with limit 0 has just been launched on the three messages of the *)
(* uploaded file                                                           *)
C19_Witness ==
  /\ ByOwner("message")
  /\ Launched
  /\ State.running
  /\ State.send_count = 0
  /\ State.messages = <<<<"a">>, <<"b">>, <<"c">>>>
  /\ State.targets = <<"Cudai Lounge">>
  /\ State.mode = "GC"

---------------------------------------------------------------------------
(* C20: start-session, configure-send and the owner's messages at the      *)
(* steps before count leave the loop alone: running, sent, started_at,     *)
(* send_count, the task handle and the tasks are unchanged.  The limit a   *)
(* suspended loop counts to is the send_count of the record, so a loop     *)
(* that is running keeps its limit through a new login or a new wizard     *)
(* run.                                                                    *)

LoopUntouched ==
  /\ State'.running = State.running
  /\ State'.sent = State.sent
  /\ State'.started_at = State.started_at
  /\ State'.send_count = State.send_count
  /\ State'.task = State.task
  /\ tasks' = tasks

C20_WizardLeavesLoopAlone ==
  /\ [](\A id \in TaskIds :
          (HandleIs(id) /\ tasks[id].pc = "suspended")
            => tasks[id].total = State.send_count)
  /\ [][(\/ last'.kind \in {"start", "attack"}
         \/ OwnerMessageAt({"session", "mode", "gc_pick", "payload"}))
          => LoopUntouched]_vars

(* the owner has started a new session while the loop with limit 2 was     *)
(* suspended after its first increment: it is still running                *)
C20_Witness ==
  /\ ByOwner("start")
  /\ State.step = "session"
  /\ State.running
  /\ State.sent = 1
  /\ State.send_count = 2
  /\ \E id \in TaskIds :
       HandleIs(id) /\ tasks[id].pc = "suspended" /\ tasks[id].total = 2

=============================================================================
